---- MODULE Spec2Model ----
(***************************************************************************)
(* TrueFrame: the upload server (frontend/server.js, two variants) and the *)
(* browser client (frontend/public/script.js).                             *)
(*                                                                         *)
(* The server part models POST /upload: multer stores the uploaded file,   *)
(* the handler forwards it to the AI backend with axios.post, replies to   *)
(* the client and unlinks the temporary file in its finally block.         *)
(***************************************************************************)
EXTENDS Integers, Sequences, FiniteSets, TLC

\* ------------------------------------------------------------------ bounds
MaxClock == 1           \* Date.now() ranges over 0..MaxClock

\* Two request slots: every property below is about one request or about a
\* pair of requests handled at the same time.
ReqIds == {1, 2}

\* --------------------------------------------------------- program constants
\* 100 * 1024 * 1024, the browser's limit in startAnalysis
MaxUploadBytes == 100 * 1024 * 1024
\* startTimer(120)
TimerSeconds == 120

Names == {"a.mp4", "b.mp4"}
Sizes == {1024, MaxUploadBytes + 1}
RandomName == "multer-random"

UnavailableMessage == "The AI analysis engine is currently unavailable."
NoResponseMessage == "No response from the AI analysis engine. It may be offline."
NoFileMessage == "No video file was uploaded."

\* JSON values exchanged with the AI backend
ResultBodies ==
    { [prediction |-> "FAKE", confidence |-> 93,
       breakdown |-> <<[name |-> "Facial Inconsistencies", tag |-> "High"]>>],
      [prediction |-> "REAL", confidence |-> 90],
      [prediction |-> "fake", confidence |-> 50, breakdown |-> <<>>] }
ErrorBodies == { [error |-> "Invalid video file."], [detail |-> "Not Found"] }
ErrorStatuses == {400, 500}
NoData == [none |-> TRUE]
Undefined == "undefined"

VARIABLES
    serverVersion,   \* which of the two server.js variants is running
    now,             \* Date.now()
    nextRand,        \* number of random file names multer has drawn
    files,           \* the uploads directory: path -> content
    req,             \* the /upload requests
    posts,           \* axios.post calls made for each request
    clientVersion,       \* which of the two script.js variants is loaded
    lastAnalysisResult,  \* script.js: let lastAnalysisResult
    countdownInterval,   \* script.js: let countdownInterval (0 is null)
    timers,              \* the browser's scheduled intervals and their `timer`
    ui,                  \* the DOM elements the script writes
    analyses,            \* the startAnalysis calls awaiting their fetch
    latest,              \* the analysis most recently started
    stored,              \* which analysis lastAnalysisResult came from
    handled,             \* the response the last step handled, if any
    ended,               \* how the most recent analysis has ended so far
    report,              \* what the last step's generatePDFReport produced
    modelHandle,     \* the AI backend's process-wide ModelHandle
    batchSize,       \* the AI backend's INFERENCE_BATCH_SIZE
    pipe             \* the AI backend's pipeline execution for one request

serverVars == <<serverVersion, now, nextRand, files, req, posts>>
clientVars == <<clientVersion, lastAnalysisResult, countdownInterval, timers,
                ui, analyses, latest, stored, handled, ended, report>>
pipeVars == <<modelHandle, batchSize, pipe>>
vars == <<serverVersion, now, nextRand, files, req, posts,
          clientVersion, lastAnalysisResult, countdownInterval, timers,
          ui, analyses, latest, stored, handled, ended, report,
          modelHandle, batchSize, pipe>>

\* ------------------------------------------------------------- file system
MaxIndex == IF MaxClock > Cardinality(ReqIds) THEN MaxClock ELSE Cardinality(ReqIds)
Paths == (0..MaxIndex) \X (Names \cup {RandomName})
NoContent == [owner |-> 0, size |-> 0]
NoPath == <<0, RandomName>>
NoFile == [originalname |-> "", size |-> 0, path |-> NoPath]

\* multer.diskStorage filename: `${Date.now()}-${file.originalname}`
DiskStorageFilename(t, originalname) == <<t, originalname>>

\* multer({dest}): a random 16-byte hex name, fresh for every file
RandomFilename(k) == <<k, RandomName>>

StoredPath(version, t, k, originalname) ==
    IF version = 1 THEN DiskStorageFilename(t, originalname)
                   ELSE RandomFilename(k)

\* ------------------------------------------------------------ the handler
TooLarge(size) == size > MaxUploadBytes

\* obj.field of a JSON object, undefined when the field is absent
Field(obj, k) == IF k \in DOMAIN obj THEN obj[k] ELSE Undefined

\* a || b on strings
OrElse(a, b) == IF a = Undefined \/ a = "" THEN b ELSE a

StatusMessage(status) == "AI engine returned status " \o ToString(status) \o "."

\* what the awaited axios.post can do
Outcomes ==
    { [kind |-> "ok", status |-> 200, data |-> d] : d \in ResultBodies }
    \cup { [kind |-> "response", status |-> s, data |-> d] :
             s \in ErrorStatuses, d \in ErrorBodies }
    \cup { [kind |-> "request", status |-> 0, data |-> NoData],
           [kind |-> "setup", status |-> 0, data |-> NoData] }
NoOutcome == [kind |-> "none", status |-> 0, data |-> NoData]

\* PYTHON_API_URL
BackendUrl == "https://trueframe-backend.onrender.com/api/predict"

\* error.message of the rejected axios.post: the handlers log it
ExceptionMessage(outcome) ==
    IF outcome.kind = "response"
    THEN "Request failed with status code " \o ToString(outcome.status)
    ELSE IF outcome.kind = "request"
    THEN "connect ECONNREFUSED " \o BackendUrl
    ELSE "ENOENT: no such file or directory, open 'uploads/'"
NoReply == [status |-> 0, body |-> NoData]

SuccessReplyWithoutBreakdown(outcome) ==
    [status |-> 200,
     body |-> [prediction |-> outcome.data.prediction,
               confidence |-> outcome.data.confidence]]

\* res.json(response.data)
SuccessReply(outcome) == [status |-> 200, body |-> outcome.data]

\* the catch block of the first variant
ErrorReplyV1(outcome) ==
    IF outcome.kind = "response"
    THEN [status |-> outcome.status,
          body |-> [error |-> OrElse(Field(outcome.data, "error"),
                                     StatusMessage(outcome.status))]]
    ELSE IF outcome.kind = "request"
    THEN [status |-> 500, body |-> [error |-> NoResponseMessage]]
    ELSE [status |-> 500, body |-> [error |-> UnavailableMessage]]

ErrorReplyWithExceptionMessage(outcome) ==
    [status |-> 500, body |-> [error |-> ExceptionMessage(outcome)]]

\* the catch block of the second variant
ErrorReplyV2(outcome) ==
    [status |-> 500,
     body |-> [error |-> OrElse(IF outcome.kind = "response"
                                THEN Field(outcome.data, "error")
                                ELSE Undefined,
                                UnavailableMessage)]]

HandlerReply(version, outcome) ==
    IF outcome.kind = "ok" THEN SuccessReply(outcome)
    ELSE IF version = 1 THEN ErrorReplyV1(outcome)
    ELSE ErrorReplyV2(outcome)

UnlinkOnSuccessOnly(outcome) == outcome.kind = "ok"

\* finally { fs.unlink(videoPath, ...) }: runs whatever the outcome was
FinallyUnlinks(outcome) == TRUE

\* one axios.post per pass through the try block
PostsAfterForward(n) == n + 1

RetryWhenNoResponse(outcome, n) == IF outcome.kind = "request" THEN n + 1 ELSE n

\* the catch block replies and never posts again
PostsAfterCatch(outcome, n) == n

NoReplyWhenSetupFails(outcome, n) == IF outcome.kind = "setup" THEN n ELSE n + 1

\* every branch of try/catch ends in one return res.json(...)
RepliesAfterSettle(outcome, n) == n + 1

FileCheckSkipped(q) == FALSE

\* if (!req.file)
NoFileUploaded(q) == ~q.hasFile

\* res.status(400).json({ error: 'No video file was uploaded.' })
NoFileReply == [status |-> 400, body |-> [error |-> NoFileMessage]]

IdleReq ==
    [pc |-> "idle", file |-> NoFile, hasFile |-> FALSE, videoPath |-> NoPath,
     forwarded |-> NoContent, outcome |-> NoOutcome, reply |-> NoReply,
     replies |-> 0, unlinkStarted |-> FALSE]

\* ------------------------------------------------------------------ Init
ServerInit ==
    /\ serverVersion \in {1, 2}
    /\ now = 0
    /\ nextRand = 0
    /\ files = [p \in Paths |-> NoContent]
    /\ req = [r \in ReqIds |-> IdleReq]
    /\ posts = [r \in ReqIds |-> 0]

\* --------------------------------------------------------------- actions
Tick ==
    /\ now < MaxClock
    /\ now' = now + 1
    /\ UNCHANGED <<serverVersion, nextRand, files, req, posts>>
    /\ UNCHANGED <<clientVars, pipeVars>>

\* upload.single('video') stores the file part on disk and sets req.file
MulterStore(r, originalname, size) ==
    LET path == StoredPath(serverVersion, now, nextRand + 1, originalname) IN
    /\ req[r].pc = "idle"
    /\ files' = [files EXCEPT ![path] = [owner |-> r, size |-> size]]
    /\ nextRand' = IF serverVersion = 1 THEN nextRand ELSE nextRand + 1
    /\ req' = [req EXCEPT ![r] =
                 [@ EXCEPT !.pc = "received", !.hasFile = TRUE,
                           !.file = [originalname |-> originalname,
                                     size |-> size, path |-> path]]]
    /\ UNCHANGED <<serverVersion, now, posts>>
    /\ UNCHANGED <<clientVars, pipeVars>>

\* an upload started by the browser's startAnalysis, which rejects large files
BrowserUpload(r) ==
    \E originalname \in Names, size \in Sizes :
        /\ ~TooLarge(size)
        /\ MulterStore(r, originalname, size)

\* any other client posting multipart data to /upload
DirectUpload(r) ==
    \E originalname \in Names, size \in Sizes :
        MulterStore(r, originalname, size)

\* a request without a 'video' part: req.file stays undefined
UploadWithoutFile(r) ==
    /\ req[r].pc = "idle"
    /\ req' = [req EXCEPT ![r] = [@ EXCEPT !.pc = "received"]]
    /\ UNCHANGED <<serverVersion, now, nextRand, files, posts>>
    /\ UNCHANGED <<clientVars, pipeVars>>

\* the handler up to its await
HandlerStart(r) ==
    /\ req[r].pc = "received"
    /\ IF NoFileUploaded(req[r])
       THEN /\ req' = [req EXCEPT ![r] =
                        [@ EXCEPT !.pc = "done",
                                  !.reply = NoFileReply,
                                  !.replies = @ + 1]]
            /\ UNCHANGED posts
       ELSE /\ req' = [req EXCEPT ![r] =
                        [@ EXCEPT !.pc = "awaiting",
                                  !.videoPath = req[r].file.path,
                                  !.file = NoFile,
                                  !.forwarded = files[req[r].file.path]]]
            /\ posts' = [posts EXCEPT ![r] = PostsAfterForward(@)]
    /\ UNCHANGED <<serverVersion, now, nextRand, files>>
    /\ UNCHANGED <<clientVars, pipeVars>>

\* the awaited axios.post settles; try/catch replies, finally starts fs.unlink
BackendSettles(r) ==
    \E outcome \in Outcomes :
        /\ req[r].pc = "awaiting"
        /\ req[r].forwarded = NoContent => outcome.kind \in {"request", "setup"}
        /\ req' = [req EXCEPT ![r] =
                     [@ EXCEPT !.pc = IF FinallyUnlinks(outcome)
                                      THEN "unlinking" ELSE "done",
                               !.forwarded = NoContent,
                               !.outcome = outcome,
                               !.reply = HandlerReply(serverVersion, outcome),
                               !.replies = RepliesAfterSettle(outcome, @),
                               !.unlinkStarted = FinallyUnlinks(outcome)]]
        /\ posts' = [posts EXCEPT ![r] = PostsAfterCatch(outcome, @)]
        /\ UNCHANGED <<serverVersion, now, nextRand, files>>
        /\ UNCHANGED <<clientVars, pipeVars>>

\* fs.unlink finishes: the file is removed, or ENOENT is logged
UnlinkCompletes(r) ==
    /\ req[r].pc = "unlinking"
    /\ files' = [files EXCEPT ![req[r].videoPath] = NoContent]
    /\ req' = [req EXCEPT ![r] = [@ EXCEPT !.pc = "done", !.videoPath = NoPath]]
    /\ UNCHANGED <<serverVersion, now, nextRand, posts>>
    /\ UNCHANGED <<clientVars, pipeVars>>

ServerNext ==
    \/ Tick
    \/ \E r \in ReqIds : BrowserUpload(r)
    \/ \E r \in ReqIds : DirectUpload(r)
    \/ \E r \in ReqIds : UploadWithoutFile(r)
    \/ \E r \in ReqIds : HandlerStart(r)
    \/ \E r \in ReqIds : BackendSettles(r)
    \/ \E r \in ReqIds : UnlinkCompletes(r)

\* =================================================================== client
\* startAnalysis calls that can be awaiting their fetch at the same time
Slots == {1, 2}
IntervalIds == {1, 2}
Unscheduled == -1

TooLargeMessage == "File is too large. Maximum size is 100MB."
FailedToFetchMessage == "Failed to fetch"
NotJsonMessage == "Unexpected token < in JSON at position 0"
NoForEachMessage == "Cannot read properties of undefined (reading 'forEach')"
UnknownErrorMessage == "An unknown error occurred during analysis."
StillWorking == "Still working..."
NoResult == [none |-> TRUE]
Elements == {"resultSection", "resultDisplay", "errorDisplay", "resultLoader",
             "resultContent"}

Show(st, els) == [st EXCEPT !.ui.hidden = @ \ els]
Hide(st, els) == [st EXCEPT !.ui.hidden = @ \cup els]

\* what fetch('/upload') followed by response.json() can deliver: a reply of
\* the upload server, a rejected fetch, or a body that is not JSON
Responses ==
    { [kind |-> "json", status |-> HandlerReply(v, o).status,
       body |-> HandlerReply(v, o).body] : v \in {1, 2}, o \in Outcomes }
    \cup { [kind |-> "network", status |-> 0, body |-> NoData],
           [kind |-> "notjson", status |-> 500, body |-> NoData] }

\* response.ok
Ok(response) == response.status >= 200 /\ response.status <= 299

ServerStatusMessage(status) == "Server responded with status " \o ToString(status)

FormatTimeUnpadded(timer) ==
    ToString(timer \div 60) \o ":" \o ToString(timer % 60)

\* updateDisplay in startTimer
FormatTime(timer) ==
    LET minutes == timer \div 60
        seconds == timer % 60
    IN ToString(minutes) \o ":" \o
       (IF seconds < 10 THEN "0" \o ToString(seconds) ELSE ToString(seconds))

\* The script's state as one value, so that its functions compose.
ClientState ==
    [last |-> lastAnalysisResult, interval |-> countdownInterval,
     timers |-> timers, ui |-> ui]

StopTimer(st) ==
    IF st.interval # 0
    THEN [st EXCEPT !.timers[st.interval] = Unscheduled,
                    !.interval = 0,
                    !.ui.timerDisplay = ""]
    ELSE st

FreeInterval(st) ==
    CHOOSE i \in IntervalIds :
        /\ st.timers[i] = Unscheduled
        /\ \A j \in IntervalIds : j < i => st.timers[j] # Unscheduled

StartTimerKeepsPrevious(st, durationInSeconds) ==
    LET id == FreeInterval(st)
    IN [st EXCEPT !.ui.timerDisplay = FormatTime(durationInSeconds),
                  !.timers[id] = durationInSeconds,
                  !.interval = id]

\* startTimer: stopTimer() first, then the display and a new setInterval
StartTimer(st, durationInSeconds) ==
    LET s1 == StopTimer(st)
        id == FreeInterval(s1)
    IN [s1 EXCEPT !.ui.timerDisplay = FormatTime(durationInSeconds),
                  !.timers[id] = durationInSeconds,
                  !.interval = id]

ShowLoaderKeepsError(st, file) ==
    LET s1 == Show(st, {"resultSection", "resultDisplay"})
        s2 == [s1 EXCEPT !.ui.fileName = file.name]
    IN Hide(Show(s2, {"resultLoader"}), {"resultContent"})

\* showLoader, and showPreviewAndLoader of the first variant
ShowLoader(st, file) ==
    LET s1 == Hide(Show(st, {"resultSection", "resultDisplay"}), {"errorDisplay"})
        s2 == [s1 EXCEPT !.ui.fileName = file.name]
    IN Hide(Show(s2, {"resultLoader"}), {"resultContent"})

VerdictText(result) ==
    IF Field(result, "prediction") = "FAKE" THEN "AI Generated" ELSE "Likely REAL"

\* String.prototype.toLowerCase on the prediction values
ToLowerCase(str) ==
    IF str \in {"FAKE", "fake"} THEN "fake"
    ELSE IF str \in {"REAL", "real"} THEN "real"
    ELSE str

\* parseFloat(confidence).toFixed(2) of a whole number
ToFixed(number) == ToString(number) \o ".00"

\* the number written in front of "% confidence" and into the report
ConfidenceText(version, result) ==
    IF version = 1 THEN ToString(result.confidence)
    ELSE ToFixed(result.confidence)

\* verdictDisplay.classList.add(result.prediction.toLowerCase())
VerdictClassV1(result) == ToLowerCase(result.prediction)

\* ui.verdictDisplay.classList.add(isFake ? 'fake' : 'real')
VerdictClassV2(result) ==
    IF Field(result, "prediction") = "FAKE" THEN "fake" ELSE "real"

\* renderSuccess up to the breakdown loop
RenderSuccessHead(st, result) ==
    LET s1 == StopTimer(st)
        s2 == [s1 EXCEPT !.last = result]
        s3 == Show(Hide(s2, {"resultLoader"}), {"resultContent"})
    IN [s3 EXCEPT !.ui.verdictText = VerdictText(result),
                  !.ui.confidenceText = ConfidenceText(2, result),
                  !.ui.verdictClass = VerdictClassV2(result),
                  !.ui.breakdown = <<>>]

\* result.breakdown.forEach throws a TypeError when breakdown is undefined
BreakdownThrows(result) == "breakdown" \notin DOMAIN result

RenderSuccess(st, result) ==
    LET s1 == RenderSuccessHead(st, result)
    IN IF BreakdownThrows(result) THEN s1
       ELSE [s1 EXCEPT !.ui.breakdown = result.breakdown]

RenderError(st, message) ==
    LET s1 == StopTimer(st)
        s2 == Show(Hide(Show(s1, {"resultSection"}), {"resultDisplay"}),
                   {"errorDisplay"})
    IN [s2 EXCEPT !.ui.errorText = message]

ResetUIState(st) ==
    LET s1 == StopTimer(st)
        s2 == Hide(s1, {"resultSection"})
    IN [s2 EXCEPT !.last = NoResult]

\* first variant: displaySuccess, displayError, resetUI
DisplaySuccess(st, result) ==
    LET s1 == [st EXCEPT !.last = result]
        s2 == Show(Hide(s1, {"resultLoader"}), {"resultContent"})
    IN [s2 EXCEPT !.ui.verdictText = VerdictText(result),
                  !.ui.confidenceText = ConfidenceText(1, result),
                  !.ui.verdictClass = VerdictClassV1(result)]

DisplayError(st, message) ==
    LET s1 == Show(Hide(st, {"resultDisplay"}), {"errorDisplay"})
    IN [s1 EXCEPT !.ui.errorText = message]

ResetUIStateV1(st) ==
    [Hide(st, {"resultSection"}) EXCEPT !.last = NoResult]

\* the part of startAnalysis that runs once the fetch has settled
AfterFetchV2(st, response) ==
    IF response.kind = "network" THEN RenderError(st, FailedToFetchMessage)
    ELSE IF response.kind = "notjson" THEN RenderError(st, NotJsonMessage)
    ELSE IF ~Ok(response)
    THEN RenderError(st, OrElse(Field(response.body, "error"),
                                ServerStatusMessage(response.status)))
    ELSE IF BreakdownThrows(response.body)
    THEN RenderError(RenderSuccess(st, response.body), NoForEachMessage)
    ELSE RenderSuccess(st, response.body)

AfterFetchV1(st, response) ==
    IF response.kind = "network" THEN DisplayError(st, FailedToFetchMessage)
    ELSE IF response.kind = "notjson" THEN DisplayError(st, NotJsonMessage)
    ELSE IF ~Ok(response) \/ OrElse(Field(response.body, "error"), "") # ""
    THEN DisplayError(st, OrElse(Field(response.body, "error"),
                                 UnknownErrorMessage))
    ELSE DisplaySuccess(st, response.body)

\* whether the handler stored the response's body in lastAnalysisResult
Stores(response) == response.kind = "json" /\ Ok(response)

\* whether startAnalysis reached the end of renderSuccess / displaySuccess
EndsInSuccess(version, response) ==
    /\ Stores(response)
    /\ version = 1 => OrElse(Field(response.body, "error"), "") = ""
    /\ version = 2 => ~BreakdownThrows(response.body)

NoReport == [kind |-> "none", fileName |-> "", verdict |-> "", confidence |-> ""]

\* generatePDFReport: alert without a stored result, else doc.save
PdfReport(st) ==
    IF st.last = NoResult
    THEN [kind |-> "alert", fileName |-> "", verdict |-> "", confidence |-> ""]
    ELSE [kind |-> "saved",
          fileName |-> "TrueFrame-Report-" \o st.ui.fileName \o ".pdf",
          verdict |-> VerdictText(st.last),
          confidence |-> ConfidenceText(clientVersion, st.last)]

Commit(st) ==
    /\ lastAnalysisResult' = st.last
    /\ countdownInterval' = st.interval
    /\ timers' = st.timers
    /\ ui' = st.ui

NoStored == [from |-> 0, cancelled |-> FALSE]
NoHandled == [kind |-> "none", status |-> 0, body |-> NoData]
IdleSlot == [pc |-> "idle", name |-> "", cancelled |-> FALSE]

ClientInit ==
    /\ clientVersion \in {1, 2}
    /\ lastAnalysisResult = NoResult
    /\ countdownInterval = 0
    /\ timers = [i \in IntervalIds |-> Unscheduled]
    /\ ui = [hidden |-> Elements, fileName |-> "", verdictText |-> "",
             confidenceText |-> "", verdictClass |-> "", breakdown |-> <<>>,
             errorText |-> "", timerDisplay |-> ""]
    /\ analyses = [a \in Slots |-> IdleSlot]
    /\ latest = 0
    /\ stored = NoStored
    /\ handled = NoHandled
    /\ ended = [slot |-> 0, how |-> "none"]
    /\ report = NoReport

\* ------------------------------------------------ AI backend: the pipeline
\* The Flask backend (backend/app.py) is described by the specification's
\* pipeline: Orchestrator -> Sampler -> Preprocessor -> Scorer -> Aggregator.

\* MAX_FRAMES, the hard cap on sampled frames
MaxFrames == 3
\* FRAME_INTERVAL, the spacing N between sampled frames
FrameInterval == 2
\* the largest INFERENCE_BATCH_SIZE configured
MaxBatch == 2
\* the most decodable frames a video holds
MaxVideoLen == 6
\* one attempt and the permitted single retry
MaxScoreAttempts == 2

\* p_fake of a frame in percent: 0.1, 0.5 and 0.93
PFakeValues == {10, 50, 93}

\* A video: whether its container parses, and its decodable frames, each
\* standing for its pixels by the score the model gives them
Videos ==
    {[readable |-> FALSE, frames |-> <<>>]}
      \cup {[readable |-> TRUE, frames |-> f] :
              f \in UNION {[1..n -> PFakeValues] : n \in 0..MaxVideoLen}}

UnreadableVideo == "UnreadableVideo"
NoDecodableFrames == "NoDecodableFrames"
ScoringFailed == "ScoringFailed"

NoVideo == [readable |-> FALSE, frames |-> <<>>]
NoVerdict == [kind |-> "none", label |-> "", confidence |-> 0, error |-> ""]
Failure(kind) == [kind |-> "error", label |-> "", confidence |-> 0, error |-> kind]
IdlePipe == [stage |-> "idle", video |-> NoVideo, pos |-> 0, frames |-> <<>>,
             tensors |-> <<>>, scores |-> <<>>, calls |-> 0, callsFor |-> 0,
             result |-> NoVerdict]

\* 4.1 Frame Sampler: the frame at stream position pos (from 0)
Decode(video, pos) == [index |-> pos, pixels |-> video.frames[pos + 1]]
\* every FrameInterval-th frame is sampled
IsSampled(pos) == pos % FrameInterval = 0
\* the sampler stops at the cap or at the end of the stream
DecodesWholeFile(frames, pos, video) == pos = Len(video.frames)
SamplerStops(frames, pos, video) ==
    Len(frames) = MaxFrames \/ pos = Len(video.frames)
AlwaysUsable(frames) == FALSE
\* zero usable frames
NoUsableFrames(frames) == Len(frames) = 0

\* 4.2 Preprocessor: one Frame to one Tensor
Preprocess(frame) == [frame_index |-> frame.index, values |-> frame.pixels]
Tensors(frames) == [k \in 1..Len(frames) |-> Preprocess(frames[k])]

\* 4.3 Batched Scorer
\* the ModelHandle's scoring function: p_fake of one tensor, in percent
ModelScore(tensor) == tensor.values
Smaller(a, b) == IF a < b THEN a ELSE b
\* the next batch of the configured size; the last one may be short
NextBatch(tensors, done, size) ==
    SubSeq(tensors, done + 1, Smaller(done + size, Len(tensors)))
ScoreBatchIndexWithinBatch(batch) ==
    [k \in 1..Len(batch) |->
        [frame_index |-> k - 1, p_fake |-> ModelScore(batch[k])]]
\* one invocation of the model: one FrameScore per tensor, in input order
ScoreBatch(batch) ==
    [k \in 1..Len(batch) |->
        [frame_index |-> batch[k].frame_index, p_fake |-> ModelScore(batch[k])]]
\* the number of invocations made for the batch that starts after `done`
CallsAfterInvoke(p) ==
    IF p.callsFor = Len(p.scores) THEN p.calls + 1 ELSE 1
RetryTwice(calls) == calls < MaxScoreAttempts + 1
\* a failed batch is retried exactly once
RetryPermitted(calls) == calls < MaxScoreAttempts

\* 4.4 Verdict Aggregator
RECURSIVE SumPFake(_)
SumPFake(scores) ==
    IF scores = <<>> THEN 0
    ELSE scores[1].p_fake + SumPFake(Tail(scores))
\* a / b rounded half up; nothing is averaged over no scores
RoundDiv(a, b) == IF b = 0 THEN 0 ELSE (2 * a + b) \div (2 * b)
Clamp(x, lo, hi) == IF x < lo THEN lo ELSE IF x > hi THEN hi ELSE x
IsFakeStrict(sum, n) == 2 * sum > 100 * n
\* mean_p_fake >= 0.5, with p_fake in percent
IsFake(sum, n) == 2 * sum >= 100 * n
\* label and confidence; confidence in hundredths of a percent (2 places)
Aggregate(scores) ==
    LET n == Len(scores)
        sum == SumPFake(scores)
    IN  IF IsFake(sum, n)
        THEN [kind |-> "verdict", label |-> "FAKE", error |-> "",
              confidence |-> Clamp(RoundDiv(100 * sum, n), 0, 10000)]
        ELSE [kind |-> "verdict", label |-> "REAL", error |-> "",
              confidence |-> Clamp(RoundDiv(100 * (100 * n - sum), n), 0, 10000)]

\* startup barrier: requests are taken only once the model is loaded
NoBarrier(handle) == TRUE
StartupBarrier(handle) == handle.state = "ready"

PipelineInit ==
    /\ modelHandle = [state |-> "unloaded", loads |-> 0]
    /\ batchSize \in 1..MaxBatch
    /\ pipe = IdlePipe

Init == ServerInit /\ ClientInit /\ PipelineInit

\* handleFileSelect / handleDrop -> startAnalysis(file), up to its await
StartAnalysis(a) ==
    \E name \in Names, size \in Sizes :
        LET file == [name |-> name, size |-> size]
            s0 == [ClientState EXCEPT !.last = NoResult]
        IN
        /\ analyses[a].pc = "idle"
        /\ \A b \in Slots : b < a => analyses[b].pc # "idle"
        /\ stored' = NoStored
        /\ handled' = NoHandled
        /\ report' = NoReport
        /\ ended' = IF TooLarge(file.size)
                     THEN [slot |-> 0, how |-> "rejected"]
                     ELSE [slot |-> a, how |-> "pending"]
        /\ IF TooLarge(file.size)
           THEN /\ Commit(IF clientVersion = 1
                          THEN DisplayError(Hide(Show(s0, {"resultSection"}),
                                                 {"resultDisplay"}),
                                            TooLargeMessage)
                          ELSE RenderError(s0, TooLargeMessage))
                /\ UNCHANGED <<analyses, latest>>
           ELSE /\ Commit(IF clientVersion = 1
                          THEN ShowLoader(s0, file)
                          ELSE StartTimer(ShowLoader(s0, file), TimerSeconds))
                /\ analyses' = [analyses EXCEPT ![a] =
                                  [pc |-> "inflight", name |-> name,
                                   cancelled |-> FALSE]]
                /\ latest' = a
        /\ UNCHANGED <<clientVersion, serverVars, pipeVars>>

\* the awaited fetch and response.json() settle; the rest of startAnalysis runs
FetchSettles(a) ==
    \E response \in Responses :
        /\ analyses[a].pc = "inflight"
        /\ Commit(IF clientVersion = 1 THEN AfterFetchV1(ClientState, response)
                                       ELSE AfterFetchV2(ClientState, response))
        /\ stored' = IF Stores(response)
                     THEN [from |-> a, cancelled |-> analyses[a].cancelled]
                     ELSE stored
        /\ handled' = response
        /\ report' = NoReport
        /\ ended' = IF ended.slot # a THEN ended
                     ELSE IF EndsInSuccess(clientVersion, response)
                     THEN [slot |-> 0, how |-> "success"]
                     ELSE [slot |-> 0, how |-> "error"]
        /\ analyses' = [analyses EXCEPT ![a] = IdleSlot]
        /\ UNCHANGED <<clientVersion, latest, serverVars, pipeVars>>

\* click on reset-error-btn
ResetUI ==
    /\ Commit(IF clientVersion = 1 THEN ResetUIStateV1(ClientState)
                                   ELSE ResetUIState(ClientState))
    /\ analyses' = [a \in Slots |->
                      IF analyses[a].pc = "inflight"
                      THEN [analyses[a] EXCEPT !.cancelled = TRUE]
                      ELSE analyses[a]]
    /\ stored' = NoStored
    /\ handled' = NoHandled
    /\ report' = NoReport
    /\ ended' = [slot |-> 0, how |-> "reset"]
    /\ UNCHANGED <<clientVersion, latest, serverVars, pipeVars>>

\* the setInterval callback of startTimer, one second later
TimerTick(i) ==
    LET timer == timers[i] - 1
        s1 == [ClientState EXCEPT !.timers[i] = timer,
                                  !.ui.timerDisplay = FormatTime(timer)]
    IN
    /\ timers[i] # Unscheduled
    /\ Commit(IF timer <= 0
              THEN [StopTimer(s1) EXCEPT !.ui.timerDisplay = StillWorking]
              ELSE s1)
    /\ handled' = NoHandled
    /\ report' = NoReport
    /\ UNCHANGED <<clientVersion, analyses, latest, stored, ended, serverVars, pipeVars>>

\* click on download-report-btn
GeneratePDFReport ==
    /\ report' = PdfReport(ClientState)
    /\ handled' = NoHandled
    /\ UNCHANGED <<clientVersion, lastAnalysisResult, countdownInterval, timers,
                   ui, analyses, latest, stored, ended, serverVars, pipeVars>>

ClientNext ==
    \/ \E a \in Slots : StartAnalysis(a)
    \/ \E a \in Slots : FetchSettles(a)
    \/ ResetUI
    \/ GeneratePDFReport
    \/ \E i \in IntervalIds : TimerTick(i)

\* ------------------------------------------------ AI backend: the actions
\* process startup: the one-time initialisation of the ModelHandle
LoadModel ==
    /\ modelHandle.state = "unloaded"
    /\ \E ok \in BOOLEAN :
         modelHandle' = [state |-> IF ok THEN "ready" ELSE "failed",
                         loads |-> modelHandle.loads + 1]
    /\ UNCHANGED <<batchSize, pipe, serverVars, clientVars>>

\* 4.5 Orchestrator: a request arrives and its container is opened
AcceptRequest ==
    /\ StartupBarrier(modelHandle)
    /\ pipe.stage = "idle"
    /\ \E video \in Videos :
         pipe' = IF video.readable
                 THEN [IdlePipe EXCEPT !.stage = "sampling", !.video = video]
                 ELSE [IdlePipe EXCEPT !.stage = "done", !.video = video,
                                       !.result = Failure(UnreadableVideo)]
    /\ UNCHANGED <<modelHandle, batchSize, serverVars, clientVars>>

\* 4.1 Sampler: decode the next frame of the stream
DecodeStep ==
    /\ pipe.stage = "sampling"
    /\ ~SamplerStops(pipe.frames, pipe.pos, pipe.video)
    /\ pipe' = [pipe EXCEPT
                  !.pos = @ + 1,
                  !.frames = IF IsSampled(pipe.pos)
                             THEN Append(@, Decode(pipe.video, pipe.pos))
                             ELSE @]
    /\ UNCHANGED <<modelHandle, batchSize, serverVars, clientVars>>

\* 4.1 / 4.2: the sample sequence is exhausted and preprocessed
SamplingEnds ==
    /\ pipe.stage = "sampling"
    /\ SamplerStops(pipe.frames, pipe.pos, pipe.video)
    /\ pipe' = IF NoUsableFrames(pipe.frames)
               THEN [pipe EXCEPT !.stage = "done",
                                 !.result = Failure(NoDecodableFrames)]
               ELSE [pipe EXCEPT !.stage = "scoring",
                                 !.tensors = Tensors(pipe.frames)]
    /\ UNCHANGED <<modelHandle, batchSize, serverVars, clientVars>>

\* 4.3 Scorer: one invocation of the model on the next batch
InvokeModel ==
    /\ pipe.stage = "scoring"
    /\ Len(pipe.scores) < Len(pipe.tensors)
    /\ \E ok \in BOOLEAN :
         LET calls == CallsAfterInvoke(pipe)
             batch == NextBatch(pipe.tensors, Len(pipe.scores), batchSize)
         IN  pipe' =
               IF ok
               THEN [pipe EXCEPT !.calls = calls, !.callsFor = Len(pipe.scores),
                                 !.scores = @ \o ScoreBatch(batch)]
               ELSE IF RetryPermitted(calls)
               THEN [pipe EXCEPT !.calls = calls, !.callsFor = Len(pipe.scores)]
               ELSE [pipe EXCEPT !.calls = calls, !.callsFor = Len(pipe.scores),
                                 !.stage = "done",
                                 !.result = Failure(ScoringFailed)]
    /\ UNCHANGED <<modelHandle, batchSize, serverVars, clientVars>>

\* 4.4 Aggregator: every tensor is scored, the Verdict is produced
AggregateScores ==
    /\ pipe.stage = "scoring"
    /\ Len(pipe.scores) = Len(pipe.tensors)
    /\ pipe' = [pipe EXCEPT !.stage = "done", !.result = Aggregate(pipe.scores)]
    /\ UNCHANGED <<modelHandle, batchSize, serverVars, clientVars>>

\* 4.5 Orchestrator: the result is returned, frames and tensors released
ReturnResult ==
    /\ pipe.stage = "done"
    /\ pipe' = IdlePipe
    /\ UNCHANGED <<modelHandle, batchSize, serverVars, clientVars>>

PipelineNext ==
    \/ LoadModel
    \/ AcceptRequest
    \/ DecodeStep
    \/ SamplingEnds
    \/ InvokeModel
    \/ AggregateScores
    \/ ReturnResult

\* ----------------------------------------------------------- specifications
\* The server and the client are checked apart: each specification leaves the
\* other side in its initial state.
InitServer == Init /\ clientVersion = 2 /\ batchSize = 1
InitClient == Init /\ serverVersion = 1 /\ batchSize = 1
InitPipeline == Init /\ serverVersion = 1 /\ clientVersion = 2
SpecServer == InitServer /\ [][ServerNext]_vars
SpecClient == InitClient /\ [][ClientNext]_vars
SpecPipeline == InitPipeline /\ [][PipelineNext]_vars
Next == ServerNext \/ ClientNext \/ PipelineNext
Spec == Init /\ [][Next]_vars

\* =================================================================== claims
\* the path a request's temporary file is stored at, while it has one
HoldsFile(r) == req[r].hasFile /\ req[r].pc \in {"received", "awaiting", "unlinking"}
PathOf(r) == IF req[r].pc = "received" THEN req[r].file.path ELSE req[r].videoPath
Exited(r) == req[r].hasFile /\ req[r].pc \in {"unlinking", "done"}

\* C1: on every exit path of the handler of a request that carried a file
\* (2xx reply, error reply, no reply, set-up failure) fs.unlink has been
\* started on the request's temporary file, and once the unlink has finished
\* no file holding the request's upload exists.
C1_TempFileDeletedOnEveryExit ==
    \A r \in ReqIds :
        /\ Exited(r) => req[r].unlinkStarted
        /\ req[r].pc = "done" => \A p \in Paths : files[p].owner # r

C1_Witness ==
    \E r \in ReqIds :
        /\ req[r].pc = "done" /\ req[r].hasFile /\ req[r].unlinkStarted
        /\ req[r].outcome.kind = "request"

\* C2: two requests that hold a temporary file at the same time hold it at
\* different paths, and a request forwards only the bytes it uploaded itself.
C2_TempFileNeverShared ==
    /\ \A r1, r2 \in ReqIds :
          (r1 # r2 /\ HoldsFile(r1) /\ HoldsFile(r2)) => PathOf(r1) # PathOf(r2)
    /\ \A r \in ReqIds : req[r].pc = "awaiting" => req[r].forwarded.owner = r

\* C3: a request that carried a file makes exactly one axios.post, however the
\* post ends; a request without a file makes none.
C3_BackendInvokedExactlyOnce ==
    \A r \in ReqIds :
        /\ posts[r] <= 1
        /\ (req[r].hasFile /\ req[r].pc \in {"awaiting", "unlinking", "done"})
              => posts[r] = 1
        /\ ~req[r].hasFile => posts[r] = 0

C3_Witness ==
    \E r1, r2 \in ReqIds :
        /\ req[r1].pc = "done" /\ req[r1].hasFile
        /\ req[r1].outcome.kind = "request" /\ posts[r1] = 1
        /\ req[r2].pc = "done" /\ ~req[r2].hasFile /\ posts[r2] = 0

\* C4: a backend error status is answered with a status of the same class
\* (4xx as 4xx, 5xx as 5xx), no backend response is answered with 500, and in
\* each of these cases the body is {error: <string>}.
C4_ErrorStatusCategoryKept ==
    \A r \in ReqIds :
        (Exited(r) /\ req[r].outcome.kind \in {"response", "request"}) =>
            /\ req[r].outcome.kind = "response" =>
                  req[r].reply.status \div 100 = req[r].outcome.status \div 100
            /\ req[r].outcome.kind = "request" => req[r].reply.status = 500
            /\ DOMAIN req[r].reply.body = {"error"}
            /\ req[r].reply.body.error \in STRING

\* C5: a 2xx answer of the backend is passed to the client as it is: the
\* reply's body is the backend's JSON body and its status is a success status.
C5_SuccessBodyForwardedVerbatim ==
    \A r \in ReqIds :
        (Exited(r) /\ req[r].outcome.kind = "ok") =>
            /\ req[r].reply.body = req[r].outcome.data
            /\ req[r].reply.status >= 200 /\ req[r].reply.status <= 299

C5_Witness ==
    \E r \in ReqIds :
        /\ req[r].pc = "done" /\ req[r].outcome.kind = "ok"
        /\ "breakdown" \in DOMAIN req[r].outcome.data
        /\ req[r].reply.body = req[r].outcome.data

\* C11: a request without a file is answered 400 with the body
\* {error: 'No video file was uploaded.'}; it makes no axios.post, starts no
\* unlink, and no file of the uploads directory is written for it.
C11_NoFileIsClientError ==
    \A r \in ReqIds :
        ~req[r].hasFile =>
            /\ req[r].pc \in {"idle", "received", "done"}
            /\ req[r].pc = "done" =>
                  /\ req[r].reply.status = 400
                  /\ req[r].reply.body = [error |-> "No video file was uploaded."]
            /\ posts[r] = 0
            /\ ~req[r].unlinkStarted
            /\ \A p \in Paths : files[p].owner # r

C11_Witness ==
    \E r1, r2 \in ReqIds :
        /\ req[r1].pc = "done" /\ ~req[r1].hasFile /\ req[r1].reply.status = 400
        /\ req[r2].pc = "awaiting"
        /\ files[req[r2].videoPath].owner = r2

\* the messages the server words itself
FixedMessages ==
    {NoFileMessage, UnavailableMessage, NoResponseMessage}
    \cup {StatusMessage(status) : status \in ErrorStatuses}

\* the error string of the backend's reply, if it sent one
BackendMessages(outcome) ==
    IF outcome.kind = "response" /\ "error" \in DOMAIN outcome.data
    THEN {outcome.data.error} ELSE {}

\* C12: the body of an error reply has the single field error, whose value
\* is the backend's error string or one of the server's fixed messages; it is
\* never the text of the caught exception, which names the backend URL or the
\* uploads path.
C12_ErrorBodyHasNoInternals ==
    \A r \in ReqIds :
        (req[r].replies > 0 /\ req[r].reply.status >= 400) =>
            /\ DOMAIN req[r].reply.body = {"error"}
            /\ req[r].reply.body.error
                  \in FixedMessages \cup BackendMessages(req[r].outcome)
            /\ req[r].reply.body.error # ExceptionMessage(req[r].outcome)

C12_Witness ==
    \E r \in ReqIds :
        /\ req[r].pc = "done" /\ req[r].outcome.kind = "setup"
        /\ req[r].reply.body = [error |-> UnavailableMessage]

\* C19: generatePDFReport saves a file exactly when a result is stored and
\* alerts otherwise; no result is stored while the most recent analysis is
\* pending, nor after it was rejected as too large, failed, or was reset.
C19_ReportOnlyFromStoredResult ==
    /\ report.kind = "saved" => lastAnalysisResult # NoResult
    /\ report.kind = "alert" => lastAnalysisResult = NoResult
    /\ ended.how \in {"pending", "rejected", "error", "reset"}
          => lastAnalysisResult = NoResult

C13_VerdictOnlyFromScores ==
    /\ pipe.result.kind = "verdict" => Len(pipe.scores) > 0
    /\ (pipe.stage = "done" /\ pipe.video.readable /\ pipe.frames = <<>>)
          => pipe.result = Failure(NoDecodableFrames)
C13_Witness ==
    /\ pipe.stage = "done"
    /\ pipe.video.readable
    /\ pipe.video.frames = <<>>
    /\ pipe.result.error = NoDecodableFrames

\* C14: the Verdict's label is FAKE exactly when the mean p_fake of the scores
\* is at least 0.5 (a mean of exactly 0.5 gives FAKE); its confidence is the
\* mean times 100 for FAKE and (1 - mean) times 100 for REAL, to 2 places,
\* within [0, 100] and never below 50.  p_fake is in percent, confidence in
\* hundredths of a percent.
C14_LabelAndConfidenceFromMean ==
    pipe.result.kind = "verdict" =>
        LET n == Len(pipe.scores)
            sum == SumPFake(pipe.scores)
            c == pipe.result.confidence
            Distance(x, y) == IF x < y THEN y - x ELSE x - y
        IN  /\ pipe.result.label \in {"FAKE", "REAL"}
            /\ pipe.result.label = "FAKE" <=> 2 * sum >= 100 * n
            /\ pipe.result.label = "FAKE"
                 => 2 * Distance(c * n, 100 * sum) <= n
            /\ pipe.result.label = "REAL"
                 => 2 * Distance(c * n, 100 * (100 * n - sum)) <= n
            /\ c \in 5000..10000
C14_Witness ==
    /\ pipe.result.kind = "verdict"
    /\ Len(pipe.scores) > 1
    /\ 2 * SumPFake(pipe.scores) = 100 * Len(pipe.scores)
    /\ pipe.result.label = "FAKE"
    /\ pipe.result.confidence = 5000

\* the state of every moment of C15
ModelLoadedBeforeRequests ==
    /\ modelHandle.loads <= 1
    /\ pipe.stage # "idle" => modelHandle = [state |-> "ready", loads |-> 1]
    /\ modelHandle.state = "failed" => pipe = IdlePipe
\* C15: no request is sampled or scored before the model has finished
\* loading; the ModelHandle is initialised once, at startup, and no request
\* loads or changes it; when initialisation fails no request is served.
C15_ModelLoadedOnceBeforeRequests ==
    /\ []ModelLoadedBeforeRequests
    /\ [][pipe' # pipe => modelHandle' = modelHandle]_vars
C15_Witness ==
    /\ pipe.stage = "scoring"
    /\ Len(pipe.scores) > 0
    /\ modelHandle = [state |-> "ready", loads |-> 1]

\* C16: a failed model invocation is retried at most once per batch: no batch
\* is ever attempted more than twice, and a second failure of the same batch
\* ends the request with ScoringFailed and no Verdict.
C16_AtMostOneRetryPerBatch ==
    /\ pipe.calls <= 2
    /\ pipe.result.error = ScoringFailed
         => /\ pipe.calls = 2
            /\ pipe.result.kind = "error"
            /\ pipe.stage = "done"
            /\ Len(pipe.scores) = pipe.callsFor
    /\ (pipe.stage = "scoring" /\ pipe.calls = 2)
         => Len(pipe.scores) > pipe.callsFor
C16_Witness ==
    /\ pipe.result.error = ScoringFailed
    /\ pipe.calls = 2
    /\ Len(pipe.scores) > 0

C18_BatchingNeutral ==
    /\ Len(pipe.scores) <= Len(pipe.tensors)
    /\ \A k \in 1..Len(pipe.scores) :
         /\ pipe.scores[k].frame_index = pipe.frames[k].index
         /\ pipe.scores[k].p_fake = ModelScore(Preprocess(pipe.frames[k]))
    /\ pipe.result.kind = "verdict" => Len(pipe.scores) = Len(pipe.frames)
C18_Witness ==
    /\ pipe.result.kind = "verdict"
    /\ batchSize = 2
    /\ Len(pipe.scores) = 3
    /\ pipe.scores[1].p_fake # pipe.scores[3].p_fake

\* C6: no file larger than 100 MB is ever forwarded to the AI backend,
\* whichever client posted it to /upload.
C6_NoOversizedForward ==
    \A r \in ReqIds :
        req[r].pc = "awaiting" => req[r].forwarded.size <= MaxUploadBytes

\* C7: after resetUI no analysis that was in flight at the reset is still
\* running, and lastAnalysisResult never holds the result of such an analysis.
C7_CancelledNeverReturnsVerdict ==
    /\ \A a \in Slots : ~(analyses[a].pc = "inflight" /\ analyses[a].cancelled)
    /\ ~(lastAnalysisResult # NoResult /\ stored.cancelled)

\* C8: once the 120-second countdown has run out ("Still working..." is
\* displayed) no analysis is still pending: it was ended with an error.
C8_TimeoutEndsRequest ==
    ui.timerDisplay = StillWorking =>
        \A a \in Slots : analyses[a].pc # "inflight"

\* C9: the stored result always comes from the most recently started
\* analysis, the one whose file name is displayed.
C9_ResultBelongsToLatest ==
    lastAnalysisResult # NoResult => stored.from = latest

\* C10: a successful response with prediction and confidence leaves the
\* client in the success view with the result stored, with or without a
\* breakdown list.
C10_BreakdownOptional ==
    (handled.kind = "json" /\ Ok(handled)
       /\ {"prediction", "confidence"} \subseteq DOMAIN handled.body) =>
        /\ lastAnalysisResult = handled.body
        /\ ui.verdictText = VerdictText(handled.body)
        /\ "errorDisplay" \in ui.hidden
        /\ "resultContent" \notin ui.hidden

\* C21: while a result is stored the screen shows 'AI Generated' with style
\* class fake exactly when its prediction is 'FAKE', and 'Likely REAL' with
\* style class real for every other prediction; the verdict and confidence of
\* a saved PDF report are those on screen.
C21_VerdictShownAndReported ==
    /\ lastAnalysisResult # NoResult =>
          IF lastAnalysisResult.prediction = "FAKE"
          THEN ui.verdictText = "AI Generated" /\ ui.verdictClass = "fake"
          ELSE ui.verdictText = "Likely REAL" /\ ui.verdictClass = "real"
    /\ report.kind = "saved" =>
          /\ report.verdict = ui.verdictText
          /\ report.confidence = ui.confidenceText

\* the countdown is running, or has expired and reads 'Still working...'
CountdownRuns == countdownInterval # 0 \/ ui.timerDisplay = StillWorking

\* C22: while the analysis started last is still in flight and the UI was not
\* reset, its countdown keeps running or reads 'Still working...': neither
\* the success or failure of another analysis nor the rejection of another
\* file stops it.
C22_CountdownOutlivesOtherAnalyses ==
    clientVersion = 2 =>
        \A a \in Slots :
            (a = latest /\ analyses[a].pc = "inflight" /\ ~analyses[a].cancelled)
                => CountdownRuns

\* C23: once an analysis has ended (renderSuccess or renderError ran) or the
\* UI was reset, no countdown interval is active and the timer display is
\* empty, also when the countdown had expired before the outcome arrived.
C23_TimerClearedAfterEnd ==
    (handled # NoHandled \/ ended.how \in {"success", "error", "rejected", "reset"})
        => /\ countdownInterval = 0
           /\ \A i \in IntervalIds : timers[i] = Unscheduled
           /\ ui.timerDisplay = ""

\* C24: at most one countdown interval is scheduled at any moment, and
\* countdownInterval is non-null exactly when one is scheduled, in which case
\* it is that interval.
C24_AtMostOneInterval ==
    LET scheduled == {i \in IntervalIds : timers[i] # Unscheduled}
    IN  /\ Cardinality(scheduled) <= 1
        /\ countdownInterval # 0 <=> scheduled # {}
        /\ countdownInterval # 0 => scheduled = {countdownInterval}
C24_Witness ==
    /\ \A a \in Slots : analyses[a].pc = "inflight"
    /\ countdownInterval # 0
    /\ timers[countdownInterval] = TimerSeconds - 1
    /\ Cardinality({i \in IntervalIds : timers[i] # Unscheduled}) = 1

\* C25: the result panel and the error panel are never both visible, and
\* within the result panel the loader and the result content are never both
\* visible.
C25_PanelsExclusive ==
    /\ ~({"resultDisplay", "errorDisplay"} \cap ui.hidden = {})
    /\ ~({"resultLoader", "resultContent"} \cap ui.hidden = {})
C25_Witness ==
    /\ "errorDisplay" \in ui.hidden
    /\ "resultDisplay" \notin ui.hidden
    /\ "resultLoader" \notin ui.hidden
    /\ "resultContent" \in ui.hidden
    /\ ui.errorText # ""
    /\ ui.verdictText # ""

\* m:ss with the seconds written as two digits
Clock(t) ==
    ToString(t \div 60) \o ":" \o ToString((t % 60) \div 10) \o ToString((t % 60) % 10)
\* a scheduled countdown holds 1 to 120 seconds and the display shows them
CountdownShown ==
    \A i \in IntervalIds :
        timers[i] # Unscheduled
            => /\ timers[i] \in 1..120
               /\ i = countdownInterval => ui.timerDisplay = Clock(timers[i])
\* one tick takes one second off, and the tick that reaches zero ends it
TickCountsDown ==
    \A i \in IntervalIds :
        TimerTick(i) =>
            IF timers[i] > 1
            THEN /\ timers'[i] = timers[i] - 1
                 /\ countdownInterval' = countdownInterval
            ELSE /\ timers'[i] = Unscheduled
                 /\ i = countdownInterval
                       => countdownInterval' = 0 /\ ui'.timerDisplay = StillWorking
\* C26: a countdown started by startTimer(120) shows 2:00, loses exactly one
\* second per tick with the seconds always two digits, never shows a negative
\* value, and the tick that reaches zero, the 120th, clears the interval and
\* writes 'Still working...'; a cleared interval never ticks again.
C26_CountdownRunsToExpiry ==
    /\ []CountdownShown
    /\ [][TickCountsDown]_vars
    /\ [](\A i \in IntervalIds : timers[i] = Unscheduled => ~ENABLED TimerTick(i))
C26_Witness ==
    /\ clientVersion = 2
    /\ analyses[1].pc = "inflight"
    /\ ~analyses[1].cancelled
    /\ countdownInterval = 0
    /\ \A i \in IntervalIds : timers[i] = Unscheduled
    /\ ui.timerDisplay = StillWorking
====
